---------------------------- MODULE Spec2Model ----------------------------
(***************************************************************************)
(* Model of the coding buddy bot's CodeAnalyzer (src/src/codeAnalyzer.ts): *)
(* the heuristic line checks, the document analysis, the emotion selector  *)
(* with its change suppression, the result cache and the host events that  *)
(* drive them.                                                             *)
(*                                                                         *)
(* Strings that the code inspects character by character (buffer contents, *)
(* file names) are sequences of one-character strings.  An optional value  *)
(* that is absent is the record Undefined.                                 *)
(***************************************************************************)
EXTENDS Naturals, Sequences, FiniteSets

\* ------------------------------------------------------------------------
\* JavaScript string primitives used by the analyzer
\* ------------------------------------------------------------------------

\* the value of an absent optional (undefined)
Undefined == [undefined |-> TRUE]

\* characters removed by trim()/trimStart() and matched by \s
WhiteSpace == {" ", "\t", "\r", "\n"}

\* characters matched by \w (a \b boundary separates \w from non-\w)
WordChars ==
    {"a", "b", "c", "d", "e", "f", "g", "h", "i", "j", "k", "l", "m",
     "n", "o", "p", "q", "r", "s", "t", "u", "v", "w", "x", "y", "z",
     "A", "B", "C", "D", "E", "F", "G", "H", "I", "J", "K", "L", "M",
     "N", "O", "P", "Q", "R", "S", "T", "U", "V", "W", "X", "Y", "Z",
     "0", "1", "2", "3", "4", "5", "6", "7", "8", "9", "_"}

\* s.startsWith(p)
StartsWith(s, p) == Len(s) >= Len(p) /\ SubSeq(s, 1, Len(p)) = p

\* s.endsWith(p)
EndsWith(s, p) ==
    Len(s) >= Len(p) /\ SubSeq(s, Len(s) - Len(p) + 1, Len(s)) = p

\* s.includes(p)
Includes(s, p) ==
    \E i \in 1..(Len(s) + 1) :
        i + Len(p) - 1 <= Len(s) /\ SubSeq(s, i, i + Len(p) - 1) = p

\* s.trimStart()
RECURSIVE TrimStart(_)
TrimStart(s) ==
    IF s # <<>> /\ Head(s) \in WhiteSpace THEN TrimStart(Tail(s)) ELSE s

\* s.trimEnd()
RECURSIVE TrimEnd(_)
TrimEnd(s) ==
    IF s # <<>> /\ s[Len(s)] \in WhiteSpace
    THEN TrimEnd(SubSeq(s, 1, Len(s) - 1))
    ELSE s

\* s.trim()
Trim(s) == TrimEnd(TrimStart(s))

\* (s.match(/c/g) || []).length for a one-character pattern c
CountChar(s, c) == Cardinality({i \in 1..Len(s) : s[i] = c})

\* content.split("\n"): the text between newlines; always at least one line
RECURSIVE Split(_)
Split(content) ==
    IF \E i \in 1..Len(content) : content[i] = "\n"
    THEN LET i == CHOOSE k \in 1..Len(content) :
                      /\ content[k] = "\n"
                      /\ \A j \in 1..(k - 1) : content[j] # "\n"
         IN  <<SubSeq(content, 1, i - 1)>>
                 \o Split(SubSeq(content, i + 1, Len(content)))
    ELSE <<content>>

\* lines.filter(pred) for pred = (line) => line.trim().length > 0
RECURSIVE FilterNonBlank(_)
FilterNonBlank(lines) ==
    IF lines = <<>> THEN <<>>
    ELSE IF Len(Trim(Head(lines))) > 0
         THEN <<Head(lines)>> \o FilterNonBlank(Tail(lines))
         ELSE FilterNonBlank(Tail(lines))

\* path.basename(fileName): the part after the last "/"
RECURSIVE Basename(_)
Basename(fileName) ==
    IF \E i \in 1..Len(fileName) : fileName[i] = "/"
    THEN LET i == CHOOSE k \in 1..Len(fileName) : fileName[k] = "/"
         IN  Basename(SubSeq(fileName, i + 1, Len(fileName)))
    ELSE fileName

\* ------------------------------------------------------------------------
\* Literals of the heuristic checks
\* ------------------------------------------------------------------------

PRINT_OPEN == <<"p", "r", "i", "n", "t", "(">>
CLOSE_PAREN == <<")">>
COLON == <<":">>
IF_ == <<"i", "f", " ">>
ELIF_ == <<"e", "l", "i", "f", " ">>
DEF_ == <<"d", "e", "f", " ">>
CLASS_ == <<"c", "l", "a", "s", "s", " ">>
FOR_ == <<"f", "o", "r", " ">>
WHILE_ == <<"w", "h", "i", "l", "e", " ">>
TRY_COLON == <<"t", "r", "y", ":">>
EXCEPT_WORD == <<"e", "x", "c", "e", "p", "t">>
EXCEPT_ == <<"e", "x", "c", "e", "p", "t", " ">>
AND_ == <<" ", "a", "n", "d", " ">>
OR_ == <<" ", "o", "r", " ">>
LAMBDA_ == <<"l", "a", "m", "b", "d", "a", " ">>
UNDEFINED_WORD == <<"u", "n", "d", "e", "f", "i", "n", "e", "d">>
TODO == <<"T", "O", "D", "O">>
FIXME == <<"F", "I", "X", "M", "E">>
DOT_PY == <<".", "p", "y">>

\* a message `Line ${lineNumber}: ${text}`
Message(lineNumber, text) == [line |-> lineNumber, text |-> text]

\* ------------------------------------------------------------------------
\* Line Classifier and Document Analyzer
\* ------------------------------------------------------------------------

\* hasMatchingExcept, scanning from line index i (1-based) to the end
RECURSIVE ExceptScan(_, _)
ExceptScan(lines, i) ==
    IF i > Len(lines) THEN FALSE
    ELSE IF StartsWith(Trim(lines[i]), EXCEPT_WORD) THEN TRUE
    ELSE IF \/ StartsWith(Trim(lines[i]), DEF_)
            \/ StartsWith(Trim(lines[i]), CLASS_)
         THEN FALSE
         ELSE ExceptScan(lines, i + 1)

\* hasMatchingExcept that scans past def and class lines
hasMatchingExcept_NoBoundary(lines, tryLineIndex) ==
    \E j \in (tryLineIndex + 1)..Len(lines) :
        StartsWith(Trim(lines[j]), EXCEPT_WORD)

\* hasMatchingExcept(lines, tryLineIndex); line indexes are 1-based here
hasMatchingExcept(lines, tryLineIndex) ==
    ExceptScan(lines, tryLineIndex + 1)

\* the messages one iteration of checkPythonSyntax's loop pushes, in order
SyntaxErrorsOfLine(lines, i) ==
    LET line == lines[i]
        missingColon(token) ==
            Includes(line, token) /\ ~Includes(line, COLON)
                /\ Len(Trim(line)) > 0
    IN  (IF Includes(line, PRINT_OPEN) /\ ~Includes(line, CLOSE_PAREN)
         THEN <<Message(i, "Missing closing parenthesis in print statement")>>
         ELSE <<>>)
     \o (IF missingColon(IF_)
         THEN <<Message(i, "Missing colon after if statement")>>
         ELSE <<>>)
     \o (IF missingColon(DEF_)
         THEN <<Message(i, "Missing colon after function definition")>>
         ELSE <<>>)
     \o (IF missingColon(FOR_)
         THEN <<Message(i, "Missing colon after for loop")>>
         ELSE <<>>)
     \o (IF missingColon(WHILE_)
         THEN <<Message(i, "Missing colon after while loop")>>
         ELSE <<>>)
     \o (IF Includes(line, TRY_COLON) /\ ~hasMatchingExcept(lines, i)
         THEN <<Message(i, "try block without matching except")>>
         ELSE <<>>)
     \o (IF CountChar(line, "'") % 2 # 0 \/ CountChar(line, "\"") % 2 # 0
         THEN <<Message(i, "Unmatched quotes")>>
         ELSE <<>>)
     \o (IF /\ Includes(line, <<"=">>)
            /\ Includes(line, <<"+">>)
            /\ Includes(line, UNDEFINED_WORD)
         THEN <<Message(i, "Possible undefined variable usage")>>
         ELSE <<>>)

RECURSIVE SyntaxErrorsFrom(_, _)
SyntaxErrorsFrom(lines, i) ==
    IF i > Len(lines) THEN <<>>
    ELSE SyntaxErrorsOfLine(lines, i) \o SyntaxErrorsFrom(lines, i + 1)

\* checkPythonSyntax(content)
checkPythonSyntax(content) == SyntaxErrorsFrom(Split(content), 1)

\* the positions where /\b(TODO|FIXME)\b/ matches in line
NoteMatches(line) ==
    {i \in 1..Len(line) :
        \E word \in {TODO, FIXME} :
            /\ i + Len(word) - 1 <= Len(line)
            /\ SubSeq(line, i, i + Len(word) - 1) = word
            /\ (i = 1 \/ line[i - 1] \notin WordChars)
            /\ (i + Len(word) > Len(line)
                   \/ line[i + Len(word)] \notin WordChars)}

\* line.match(/\b(TODO|FIXME)\b/)?.[0]: the leftmost matching word
FirstNote(line) ==
    LET i == CHOOSE k \in NoteMatches(line) :
                 \A j \in NoteMatches(line) : k <= j
    IN  IF SubSeq(line, i, i + Len(TODO) - 1) = TODO THEN "TODO" ELSE "FIXME"

\* the first character of line that is not c, or "" when there is none
RECURSIVE AfterRun(_, _)
AfterRun(line, c) ==
    IF line = <<>> THEN ""
    ELSE IF Head(line) = c THEN AfterRun(Tail(line), c) ELSE Head(line)

\* the messages one iteration of checkPythonWarnings's loop pushes, in order
WarningsOfLine(lines, i) ==
    LET line == lines[i]
    IN  (IF Len(line) > 120
         THEN <<Message(i, "Line exceeds 120 characters")>>
         ELSE <<>>)
     \o (IF /\ line # <<>>
            /\ line[Len(line)] \in WhiteSpace
            /\ Len(Trim(line)) > 0
         THEN <<Message(i, "Trailing whitespace")>>
         ELSE <<>>)
     \o (IF NoteMatches(line) # {}
         THEN <<Message(i, IF FirstNote(line) = "TODO"
                           THEN "Contains TODO note"
                           ELSE "Contains FIXME note")>>
         ELSE <<>>)
     \o (IF line # <<>> /\ Head(line) = "\t"
         THEN <<Message(i, "Uses tab indentation (prefer spaces)")>>
         ELSE <<>>)
     \o (IF /\ line # <<>>
            /\ \/ Head(line) = "\t" /\ AfterRun(line, "\t") = " "
               \/ Head(line) = " " /\ AfterRun(line, " ") = "\t"
         THEN <<Message(i, "Mixed indentation (tabs and spaces)")>>
         ELSE <<>>)

RECURSIVE WarningsFrom(_, _)
WarningsFrom(lines, i) ==
    IF i > Len(lines) THEN <<>>
    ELSE WarningsOfLine(lines, i) \o WarningsFrom(lines, i + 1)

\* checkPythonWarnings(content)
checkPythonWarnings(content) == WarningsFrom(Split(content), 1)

\* the contribution of one line to calculateComplexity
ComplexityOfLine(line) ==
    LET trimmed == Trim(line)
        indentLevel == Len(line) - Len(TrimStart(line))
    IN  (IF StartsWith(trimmed, IF_) \/ StartsWith(trimmed, ELIF_)
         THEN 1 ELSE 0)
      + (IF StartsWith(trimmed, FOR_) \/ StartsWith(trimmed, WHILE_)
         THEN 2 ELSE 0)
      + (IF StartsWith(trimmed, TRY_COLON) \/ StartsWith(trimmed, EXCEPT_)
         THEN 1 ELSE 0)
      + (IF StartsWith(trimmed, DEF_) \/ StartsWith(trimmed, CLASS_)
         THEN 1 ELSE 0)
      + (IF Includes(trimmed, AND_) \/ Includes(trimmed, OR_)
         THEN 1 ELSE 0)
      + (IF Includes(trimmed, LAMBDA_) THEN 2 ELSE 0)
      + (IF indentLevel > 8 THEN 1 ELSE 0)

\* calculateComplexity(lines)
RECURSIVE calculateComplexity(_)
calculateComplexity(lines) ==
    IF lines = <<>> THEN 0
    ELSE ComplexityOfLine(Head(lines)) + calculateComplexity(Tail(lines))

\* assessCodeQuality without the lines.length > 0 tests
assessCodeQuality_EmptyGood(lines, complexity, errorCount) ==
    IF errorCount = 0 /\ complexity < 10 THEN "good"
    ELSE IF errorCount = 0 THEN "improving"
    ELSE "needs_work"

\* assessCodeQuality(lines, complexity, errorCount)
assessCodeQuality(lines, complexity, errorCount) ==
    IF errorCount = 0 /\ complexity < 10 /\ Len(lines) > 0 THEN "good"
    ELSE IF errorCount = 0 /\ Len(lines) > 0 THEN "improving"
    ELSE "needs_work"

\* analyzePythonCode with hasErrors taken as "more than one error"
analyzePythonCode_ManyErrors(content) ==
    LET lines == FilterNonBlank(Split(content))
        lineCount == Len(lines)
        syntaxErrors == checkPythonSyntax(content)
        hasErrors == Len(syntaxErrors) > 1
        errorCount == Len(syntaxErrors)
        warnings == checkPythonWarnings(content)
        hasWarnings == Len(warnings) > 0
        warningCount == Len(warnings)
        complexity == calculateComplexity(lines)
        quality == assessCodeQuality(lines, complexity, errorCount)
    IN  [hasErrors    |-> hasErrors,
         errorCount   |-> errorCount,
         hasWarnings  |-> hasWarnings,
         warningCount |-> warningCount,
         lineCount    |-> lineCount,
         complexity   |-> complexity,
         quality      |-> quality,
         lastError    |-> IF hasErrors THEN syntaxErrors[1] ELSE Undefined,
         lastWarning  |-> IF hasWarnings THEN warnings[1] ELSE Undefined,
         lastSuccess  |-> IF ~hasErrors /\ lineCount > 0
                          THEN [text |-> "Code looks good!"]
                          ELSE Undefined]

\* analyzePythonCode with lastSuccess present whenever there is no error
analyzePythonCode_SuccessWhenEmpty(content) ==
    LET lines == FilterNonBlank(Split(content))
        lineCount == Len(lines)
        syntaxErrors == checkPythonSyntax(content)
        hasErrors == Len(syntaxErrors) > 0
        errorCount == Len(syntaxErrors)
        warnings == checkPythonWarnings(content)
        hasWarnings == Len(warnings) > 0
        warningCount == Len(warnings)
        complexity == calculateComplexity(lines)
        quality == assessCodeQuality(lines, complexity, errorCount)
    IN  [hasErrors    |-> hasErrors,
         errorCount   |-> errorCount,
         hasWarnings  |-> hasWarnings,
         warningCount |-> warningCount,
         lineCount    |-> lineCount,
         complexity   |-> complexity,
         quality      |-> quality,
         lastError    |-> IF hasErrors THEN syntaxErrors[1] ELSE Undefined,
         lastWarning  |-> IF hasWarnings THEN warnings[1] ELSE Undefined,
         lastSuccess  |-> IF ~hasErrors
                          THEN [text |-> "Code looks good!"]
                          ELSE Undefined]

\* analyzePythonCode(content): the CodeAnalysisResult of a buffer
analyzePythonCode(content) ==
    LET lines == FilterNonBlank(Split(content))
        lineCount == Len(lines)
        syntaxErrors == checkPythonSyntax(content)
        hasErrors == Len(syntaxErrors) > 0
        errorCount == Len(syntaxErrors)
        warnings == checkPythonWarnings(content)
        hasWarnings == Len(warnings) > 0
        warningCount == Len(warnings)
        complexity == calculateComplexity(lines)
        quality == assessCodeQuality(lines, complexity, errorCount)
    IN  [hasErrors    |-> hasErrors,
         errorCount   |-> errorCount,
         hasWarnings  |-> hasWarnings,
         warningCount |-> warningCount,
         lineCount    |-> lineCount,
         complexity   |-> complexity,
         quality      |-> quality,
         lastError    |-> IF hasErrors THEN syntaxErrors[1] ELSE Undefined,
         lastWarning  |-> IF hasWarnings THEN warnings[1] ELSE Undefined,
         lastSuccess  |-> IF ~hasErrors /\ lineCount > 0
                          THEN [text |-> "Code looks good!"]
                          ELSE Undefined]


\* ------------------------------------------------------------------------
\* Emotion Selector
\* ------------------------------------------------------------------------

\* a reason string: the template literal and the values interpolated in it
Reason(template, n, file) == [template |-> template, n |-> n, file |-> file]

\* SelectEmotion with the warnings branch tested before the errors branch
SelectEmotion_WarningsFirst(result, fileName) ==
    IF result.hasWarnings
    THEN [emotion |-> "concerned",
          reason  |-> Reason("Warnings detected in {file}",
                             0, Basename(fileName))]
    ELSE IF result.hasErrors
    THEN [emotion |-> "frustrated",
          reason  |-> Reason("Found {n} syntax error(s) in {file}",
                             result.errorCount, Basename(fileName))]
    ELSE IF result.lineCount = 0
    THEN [emotion |-> "happy",
          reason  |-> Reason("Empty file - ready to start coding!", 0, <<>>)]
    ELSE [emotion |-> "happy",
          reason  |-> Reason("Great code! {n} lines written, no errors found",
                             result.lineCount, <<>>)]

\* the emotion and reason updateBotEmotion selects for a result
SelectEmotion(result, fileName) ==
    IF result.hasErrors
    THEN [emotion |-> "frustrated",
          reason  |-> Reason("Found {n} syntax error(s) in {file}",
                             result.errorCount, Basename(fileName))]
    ELSE IF result.hasWarnings
    THEN [emotion |-> "concerned",
          reason  |-> Reason("Warnings detected in {file}",
                             0, Basename(fileName))]
    ELSE IF result.lineCount = 0
    THEN [emotion |-> "happy",
          reason  |-> Reason("Empty file - ready to start coding!", 0, <<>>)]
    ELSE [emotion |-> "happy",
          reason  |-> Reason("Great code! {n} lines written, no errors found",
                             result.lineCount, <<>>)]

\* the baseline of a call that returned before computing one
NotComputed == [notComputed |-> TRUE]

\* updateBotEmotion with warningCount added to the fields compared
updateBotEmotion_CompareWarnings(result, fileName, previousResult, cache, callback) ==
    IF callback = "undefined"
    THEN [baseline |-> NotComputed, calls |-> <<>>]
    ELSE LET baseline == IF previousResult # Undefined
                         THEN previousResult
                         ELSE cache[fileName]
         IN  [baseline |-> baseline,
              calls    |->
                  IF \/ baseline = Undefined
                     \/ baseline.hasErrors # result.hasErrors
                     \/ baseline.errorCount # result.errorCount
                     \/ baseline.lineCount # result.lineCount
                     \/ baseline.warningCount # result.warningCount
                  THEN <<SelectEmotion(result, fileName)>>
                  ELSE <<>>]

\* updateBotEmotion with the listener called once where the change is
\* logged and once more after the comparison
updateBotEmotion_CallTwice(result, fileName, previousResult, cache, callback) ==
    IF callback = "undefined"
    THEN [baseline |-> NotComputed, calls |-> <<>>]
    ELSE LET baseline == IF previousResult # Undefined
                         THEN previousResult
                         ELSE cache[fileName]
         IN  [baseline |-> baseline,
              calls    |->
                  IF \/ baseline = Undefined
                     \/ baseline.hasErrors # result.hasErrors
                     \/ baseline.errorCount # result.errorCount
                     \/ baseline.lineCount # result.lineCount
                  THEN <<SelectEmotion(result, fileName),
                         SelectEmotion(result, fileName)>>
                  ELSE <<>>]

\* updateBotEmotion without the early return at a missing listener
updateBotEmotion_NoListenerCheck(result, fileName, previousResult, cache, callback) ==
    LET baseline == IF previousResult # Undefined
                    THEN previousResult
                    ELSE cache[fileName]
    IN  [baseline |-> baseline,
         calls    |->
             IF \/ baseline = Undefined
                \/ baseline.hasErrors # result.hasErrors
                \/ baseline.errorCount # result.errorCount
                \/ baseline.lineCount # result.lineCount
             THEN <<SelectEmotion(result, fileName)>>
             ELSE <<>>]

\* updateBotEmotion that calls the listener after every analysis
updateBotEmotion_Always(result, fileName, previousResult, cache, callback) ==
    IF callback = "undefined"
    THEN [baseline |-> NotComputed, calls |-> <<>>]
    ELSE [baseline |-> IF previousResult # Undefined
                       THEN previousResult
                       ELSE cache[fileName],
          calls    |-> <<SelectEmotion(result, fileName)>>]

\* updateBotEmotion that compares the result with every entry of the cache
updateBotEmotion_AnyEntry(result, fileName, previousResult, cache, callback) ==
    IF callback = "undefined"
    THEN [baseline |-> NotComputed, calls |-> <<>>]
    ELSE [baseline |-> IF previousResult # Undefined
                       THEN previousResult
                       ELSE cache[fileName],
          calls    |->
              IF \E f \in DOMAIN cache :
                     /\ cache[f] # Undefined
                     /\ \/ cache[f].hasErrors # result.hasErrors
                        \/ cache[f].errorCount # result.errorCount
                        \/ cache[f].lineCount # result.lineCount
              THEN <<SelectEmotion(result, fileName)>>
              ELSE <<>>]

\* updateBotEmotion(result, fileName, previousResult), run with
\* this.analysisResults = cache and this.onEmotionChange = callback:
\* the baseline it compares with and the listener calls it makes
updateBotEmotion(result, fileName, previousResult, cache, callback) ==
    IF callback = "undefined"
    THEN [baseline |-> NotComputed, calls |-> <<>>]
    ELSE LET baseline == IF previousResult # Undefined
                         THEN previousResult
                         ELSE cache[fileName]
         IN  [baseline |-> baseline,
              calls    |->
                  IF \/ baseline = Undefined
                     \/ baseline.hasErrors # result.hasErrors
                     \/ baseline.errorCount # result.errorCount
                     \/ baseline.lineCount # result.lineCount
                  THEN <<SelectEmotion(result, fileName)>>
                  ELSE <<>>]

\* ------------------------------------------------------------------------
\* The host: documents, their buffers, the events
\* ------------------------------------------------------------------------

\* a file named *.py whose language mode is not python: /s/a.py
DocA == [fileName   |-> <<"/", "s", "/", "a", ".", "p", "y">>,
         languageId |-> "plaintext"]
\* a file in python language mode whose name has no .py suffix: /s/b
DocB == [fileName |-> <<"/", "s", "/", "b">>, languageId |-> "python"]
\* a file that is not Python: /s/n.py.txt
DocN == [fileName   |-> <<"/", "s", "/", "n", ".", "p", "y", ".", "t", "x", "t">>,
         languageId |-> "plaintext"]

Documents == {DocA, DocB, DocN}
FileNames == {d.fileName : d \in Documents}

\* ""
BufEmpty == <<>>
\* "x = 1": one clean line
BufClean == <<"x", " ", "=", " ", "1">>
\* "x = 1 ": one line with trailing whitespace
BufWarn == <<"x", " ", "=", " ", "1", " ">>
\* "if x:\n": one branch, then a blank line
BufBranch == <<"i", "f", " ", "x", ":", "\n">>
\* "x = 1\nif x ": a missing colon and trailing whitespace on line 2
BufBoth == <<"x", " ", "=", " ", "1", "\n", "i", "f", " ", "x", " ">>

\* the contents document.getText() returns for each document
BuffersOf(document) ==
    IF document = DocA
    THEN {BufEmpty, BufClean, BufWarn, BufBranch, BufBoth}
    ELSE IF document = DocB THEN {BufClean, BufBoth}
    ELSE {BufClean}

\* analyzePythonCode on every content a document takes, computed once
AnalysisOf ==
    [content \in UNION {BuffersOf(d) : d \in Documents} |->
        analyzePythonCode(content)]

\* the most analyzeFile continuations waiting in the microtask queue
MaxPending == 2

\* currentFile before any assignment (the code tests it with !currentFile)
NoFile == <<>>
\* the result of awaiting a rejected promise
Rejected == [rejected |-> TRUE]
NoEvent == [kind |-> "none"]
NoRun == [none |-> TRUE]

VARIABLES
    constructed,       \* the constructor has run
    activeTextEditor,  \* host: the document of vscode.window.activeTextEditor
    currentFile,       \* this.currentFile
    analysisResults,   \* this.analysisResults: fileName -> result or Undefined
    onEmotionChange,   \* this.onEmotionChange: "undefined" or "listener"
    microtasks,        \* analyzeFile calls suspended at their await, in order
    hostFault,         \* a fault left analyzeFile uncaught
    lastContent,       \* fileName -> <<content of the last event analysed>>
    event,             \* the host event the last step handled, or NoEvent
    lastRun,           \* the continuation the last step resumed, or NoRun
    sourceText,        \* a buffer handed to analyzePythonCode on its own
    produced,          \* what analyzePythonCode made of sourceText
    returned,          \* what a caller got from getAllAnalysisResults
    waterReminderTimer,\* BotInterface: the interval handle held, or NoTimer
    intervals,         \* host: the handles setInterval gave, not yet cleared
    timersStarted,     \* host: how many handles setInterval has given
    panel,             \* BotInterface: the webview panel held, or NoPanel
    panels,            \* host: the webview panels created and not disposed
    panelsCreated,     \* host: how many panels createWebviewPanel has made
    botOp,             \* the BotInterface step taken last
    currentEmotion,    \* BotInterface: the emotion recorded last
    currentReason,     \* BotInterface: the reason recorded last
    html,              \* host: what the held panel's webview shows
    revealed,          \* whether the last step showed or revealed a panel
    variant            \* which of the file's two BotInterface classes runs

\* the analyzer and its host
analyzerVars ==
    <<constructed, activeTextEditor, currentFile, analysisResults,
      onEmotionChange, microtasks, hostFault, lastContent, event, lastRun>>

\* one call of analyzePythonCode, outside any event
callVars == <<sourceText, produced>>

\* a caller of getAllAnalysisResults
callerVars == <<returned>>

\* the BotInterface and its host
botVars ==
    <<waterReminderTimer, intervals, timersStarted, panel, panels,
      panelsCreated, botOp>>

\* what the BotInterface records and renders of an emotion
emotionVars == <<currentEmotion, currentReason, html, revealed, variant>>

\* what the analyzer's handlers never touch
otherVars == <<callVars, callerVars, botVars, emotionVars>>

vars == <<analyzerVars, otherVars>>

\* no stand-alone call of analyzePythonCode is under way
CallIdle == sourceText = <<>> /\ produced = NotComputed

\* no caller has asked for the whole cache
CallerIdle == returned = "undefined"

\* `waterReminderTimer: NodeJS.Timeout | undefined`, when undefined
NoTimer == 0
\* `panel: vscode.WebviewPanel | undefined`, when undefined
NoPanel == 0

\* a BotInterface just constructed
BotIdle ==
    /\ waterReminderTimer = NoTimer
    /\ intervals = {}
    /\ timersStarted = 0
    /\ panel = NoPanel
    /\ panels = {}
    /\ panelsCreated = 0
    /\ botOp = "none"

\* `currentReason: string = "Ready to code!"`
ReadyToCode == Reason("Ready to code!", 0, <<>>)
\* the webview of a panel that does not exist
NoHtml == [noHtml |-> TRUE]

\* the emotion fields of a BotInterface just constructed: the first class
EmotionIdle ==
    /\ currentEmotion = "focused"
    /\ currentReason = ReadyToCode
    /\ html = NoHtml
    /\ revealed = FALSE
    /\ variant = "noFocusSteal"

OthersIdle == CallIdle /\ CallerIdle /\ BotIdle /\ EmotionIdle

\* isPythonFile with includes(".py") in place of endsWith(".py")
isPythonFile_Includes(document) ==
    document.languageId = "python" \/ Includes(document.fileName, DOT_PY)

\* isPythonFile(document)
isPythonFile(document) ==
    document.languageId = "python" \/ EndsWith(document.fileName, DOT_PY)

\* analyzeFile(document) up to its await, with content = document.getText():
\* the content is analysed
\* and the rest of the body is queued behind the microtasks already waiting
analyzeFile(document, content, fault) ==
    Append(microtasks,
           [document |-> document,
            result   |-> IF fault THEN Rejected
                         ELSE AnalysisOf[content]])

\* analyzeFileResume without the catch: a rejection or a throwing listener
\* leaves the function as an unhandled fault
analyzeFileResume_NoCatch(task, listenerThrows) ==
    IF task.result = Rejected
    THEN [currentFile     |-> currentFile,
          analysisResults |-> analysisResults,
          escaped         |-> TRUE,
          run |-> [fileName |-> task.document.fileName,
                   result   |-> Rejected,
                   previous |-> Undefined,
                   baseline |-> NotComputed,
                   calls    |-> <<>>,
                   observed |-> NotComputed,
                   threw    |-> FALSE]]
    ELSE LET fileName == task.document.fileName
             previous == analysisResults[fileName]
             cache    == [analysisResults EXCEPT ![fileName] = task.result]
             notify   == updateBotEmotion(task.result, fileName, previous,
                                          cache, onEmotionChange)
         IN  [currentFile     |-> fileName,
              analysisResults |-> cache,
              escaped         |-> listenerThrows /\ notify.calls # <<>>,
              run |-> [fileName |-> fileName,
                       result   |-> task.result,
                       previous |-> previous,
                       baseline |-> notify.baseline,
                       calls    |-> notify.calls,
                       observed |-> IF notify.calls # <<>>
                                    THEN cache[fileName]
                                    ELSE NotComputed,
                       threw    |-> listenerThrows /\ notify.calls # <<>>]]

\* analyzeFileResume with the cache keyed by the active editor's document
\* instead of the document analysed
analyzeFileResume_ActiveKey(task, listenerThrows) ==
    IF task.result = Rejected
    THEN [currentFile     |-> currentFile,
          analysisResults |-> analysisResults,
          escaped         |-> FALSE,
          run |-> [fileName |-> task.document.fileName,
                   result   |-> Rejected,
                   previous |-> Undefined,
                   baseline |-> NotComputed,
                   calls    |-> <<>>,
                   observed |-> NotComputed,
                   threw    |-> FALSE]]
    ELSE LET fileName == task.document.fileName
             key      == IF activeTextEditor # Undefined
                         THEN activeTextEditor.fileName
                         ELSE fileName
             previous == analysisResults[key]
             cache    == [analysisResults EXCEPT ![key] = task.result]
             notify   == updateBotEmotion(task.result, fileName, previous,
                                          cache, onEmotionChange)
         IN  [currentFile     |-> fileName,
              analysisResults |-> cache,
              escaped         |-> FALSE,
              run |-> [fileName |-> fileName,
                       result   |-> task.result,
                       previous |-> previous,
                       baseline |-> notify.baseline,
                       calls    |-> notify.calls,
                       observed |-> IF notify.calls # <<>>
                                    THEN cache[fileName]
                                    ELSE NotComputed,
                       threw    |-> listenerThrows /\ notify.calls # <<>>]]

\* analyzeFile from its await to its end, for the continuation task:
\* the fields it leaves, whether a fault escapes it, and what it did
analyzeFileResume(task, listenerThrows) ==
    IF task.result = Rejected
    THEN [currentFile     |-> currentFile,
          analysisResults |-> analysisResults,
          escaped         |-> FALSE,
          run |-> [fileName |-> task.document.fileName,
                   result   |-> Rejected,
                   previous |-> Undefined,
                   baseline |-> NotComputed,
                   calls    |-> <<>>,
                   observed |-> NotComputed,
                   threw    |-> FALSE]]
    ELSE LET fileName == task.document.fileName
             previous == analysisResults[fileName]
             cache    == [analysisResults EXCEPT ![fileName] = task.result]
             notify   == updateBotEmotion(task.result, fileName, previous,
                                          cache, onEmotionChange)
         IN  [currentFile     |-> fileName,
              analysisResults |-> cache,
              escaped         |-> FALSE,
              run |-> [fileName |-> fileName,
                       result   |-> task.result,
                       previous |-> previous,
                       baseline |-> notify.baseline,
                       calls    |-> notify.calls,
                       observed |-> IF notify.calls # <<>>
                                    THEN cache[fileName]
                                    ELSE NotComputed,
                       threw    |-> listenerThrows /\ notify.calls # <<>>]]

\* the analyzer before its constructor has run
InitAnalyzer ==
    /\ constructed = FALSE
    /\ activeTextEditor \in Documents \cup {Undefined}
    /\ currentFile = NoFile
    /\ analysisResults = [f \in FileNames |-> Undefined]
    /\ onEmotionChange = "undefined"
    /\ microtasks = <<>>
    /\ hostFault = FALSE
    /\ lastContent = [f \in FileNames |-> <<>>]
    /\ event = NoEvent
    /\ lastRun = NoRun

Init == InitAnalyzer /\ OthersIdle

\* getCurrentAnalysis(): the cache entry of currentFile, if there is one
getCurrentAnalysis ==
    IF currentFile = NoFile THEN Undefined ELSE analysisResults[currentFile]

\* what a handler that calls analyzeFile(document) on content leaves
Analyse(kind, document, content, fault) ==
    /\ microtasks' = analyzeFile(document, content, fault)
    /\ lastContent' = IF fault THEN lastContent
                      ELSE [lastContent EXCEPT
                                ![document.fileName] = <<content>>]
    /\ event' = [kind |-> kind, document |-> document, fault |-> fault]

\* what a handler that ignores its event leaves
Ignore(kind, document) ==
    /\ event' = [kind |-> kind, document |-> document, fault |-> FALSE]
    /\ UNCHANGED <<microtasks, lastContent>>

\* new CodeAnalyzer(): setupFileWatcher and its initial analysis
Constructor ==
    /\ ~constructed
    /\ constructed' = TRUE
    /\ IF activeTextEditor # Undefined /\ isPythonFile(activeTextEditor)
       THEN /\ currentFile' = activeTextEditor.fileName
            /\ \E content \in BuffersOf(activeTextEditor), fault \in BOOLEAN :
                   Analyse("initial", activeTextEditor, content, fault)
       ELSE /\ Ignore("initial", activeTextEditor)
            /\ UNCHANGED currentFile
    /\ lastRun' = NoRun
    /\ UNCHANGED <<activeTextEditor, analysisResults, onEmotionChange,
                   hostFault>>
    /\ UNCHANGED otherVars

\* setEmotionCallback(callback)
SetEmotionCallback ==
    /\ constructed
    /\ onEmotionChange' = "listener"
    /\ event' = NoEvent
    /\ lastRun' = NoRun
    /\ UNCHANGED <<constructed, activeTextEditor, currentFile,
                   analysisResults, microtasks, hostFault, lastContent>>
    /\ UNCHANGED otherVars

\* the host makes editor the active editor; onDidChangeActiveTextEditor
OnDidChangeActiveTextEditor ==
    /\ constructed
    /\ Len(microtasks) < MaxPending
    /\ \E editor \in Documents \cup {Undefined} :
        /\ activeTextEditor' = editor
        /\ IF editor # Undefined /\ isPythonFile(editor)
           THEN /\ currentFile' = editor.fileName
                /\ \E content \in BuffersOf(editor), fault \in BOOLEAN :
                       Analyse("activate", editor, content, fault)
           ELSE /\ Ignore("activate", editor)
                /\ UNCHANGED currentFile
    /\ lastRun' = NoRun
    /\ UNCHANGED <<constructed, analysisResults, onEmotionChange,
                   hostFault>>
    /\ UNCHANGED otherVars

\* the host changes a document's text to content; onDidChangeTextDocument
OnDidChangeTextDocument ==
    /\ constructed
    /\ Len(microtasks) < MaxPending
    /\ \E document \in Documents : \E content \in BuffersOf(document) :
        IF isPythonFile(document) /\ document = activeTextEditor
        THEN \E fault \in BOOLEAN :
                 Analyse("edit", document, content, fault)
        ELSE Ignore("edit", document)
    /\ lastRun' = NoRun
    /\ UNCHANGED <<constructed, activeTextEditor, currentFile,
                   analysisResults, onEmotionChange, hostFault>>
    /\ UNCHANGED otherVars

\* the host saves a document; onDidSaveTextDocument
OnDidSaveTextDocument ==
    /\ constructed
    /\ Len(microtasks) < MaxPending
    /\ \E document \in Documents :
        IF isPythonFile(document)
        THEN \E content \in BuffersOf(document), fault \in BOOLEAN :
                 Analyse("save", document, content, fault)
        ELSE Ignore("save", document)
    /\ lastRun' = NoRun
    /\ UNCHANGED <<constructed, activeTextEditor, currentFile,
                   analysisResults, onEmotionChange, hostFault>>
    /\ UNCHANGED otherVars

\* the event loop resumes the analyzeFile call at the head of the queue
AnalyzeFileResume ==
    /\ microtasks # <<>>
    /\ \E listenerThrows \in BOOLEAN :
        LET out == analyzeFileResume(Head(microtasks), listenerThrows)
        IN  /\ currentFile' = out.currentFile
            /\ analysisResults' = out.analysisResults
            /\ hostFault' = (hostFault \/ out.escaped)
            /\ lastRun' = out.run
    /\ microtasks' = Tail(microtasks)
    /\ event' = NoEvent
    /\ UNCHANGED <<constructed, activeTextEditor, onEmotionChange,
                   lastContent>>
    /\ UNCHANGED otherVars

\* dispose() that also empties the cache
Dispose_ClearsCache ==
    /\ constructed
    /\ analysisResults' = [f \in FileNames |-> Undefined]
    /\ event' = [kind |-> "dispose"]
    /\ lastRun' = NoRun
    /\ UNCHANGED <<constructed, activeTextEditor, currentFile,
                   onEmotionChange, microtasks, hostFault, lastContent>>
    /\ UNCHANGED otherVars

\* dispose(): fileWatcher is never assigned, so nothing is released; the
\* three event subscriptions stay and continuations still resume
Dispose ==
    /\ constructed
    /\ event' = [kind |-> "dispose"]
    /\ lastRun' = NoRun
    /\ UNCHANGED <<constructed, activeTextEditor, currentFile,
                   analysisResults, onEmotionChange, microtasks, hostFault,
                   lastContent>>
    /\ UNCHANGED otherVars

Next ==
    \/ Constructor
    \/ SetEmotionCallback
    \/ OnDidChangeActiveTextEditor
    \/ OnDidChangeTextDocument
    \/ OnDidSaveTextDocument
    \/ AnalyzeFileResume
    \/ Dispose

Spec == Init /\ [][Next]_vars

\* ------------------------------------------------------------------------
\* analyzePythonCode applied to a buffer, outside any event
\* ------------------------------------------------------------------------

\* "try:"
LineTry == <<"t", "r", "y", ":">>
\* "except:"
LineExcept == <<"e", "x", "c", "e", "p", "t", ":">>
\* "def f():"
LineDef == <<"d", "e", "f", " ", "f", "(", ")", ":">>
\* "# try:": "try:" away from the start of the trimmed line
LineNote == <<"#", " ", "t", "r", "y", ":">>
\* "x = 1"
LineAssign == <<"x", " ", "=", " ", "1">>
\* "         for a in b and lambda c:": nine columns deep, complexity 6
LineDeep ==
    <<" ", " ", " ", " ", " ", " ", " ", " ", " ", "f", "o", "r", " ", "a",
      " ", "i", "n", " ", "b", " ", "a", "n", "d", " ", "l", "a", "m", "b",
      "d", "a", " ", "c", ":">>
\* " ": a blank line
LineBlank == <<" ">>

\* the lines a buffer is made of
CallLines ==
    {LineTry, LineExcept, LineDef, LineNote, LineAssign, LineDeep, LineBlank}

\* the most lines of a buffer
MaxLines == 3

\* lines.join("\n")
RECURSIVE JoinLines(_)
JoinLines(ls) ==
    IF ls = <<>> THEN <<>>
    ELSE IF Len(ls) = 1 THEN ls[1]
    ELSE ls[1] \o <<"\n">> \o JoinLines(Tail(ls))

\* every buffer of at most MaxLines lines; the empty string among them
CallBuffers ==
    {JoinLines(ls) : ls \in UNION {[1..n -> CallLines] : n \in 0..MaxLines}}

InitCall ==
    /\ InitAnalyzer
    /\ activeTextEditor = Undefined
    /\ sourceText \in CallBuffers
    /\ produced = NotComputed
    /\ CallerIdle
    /\ BotIdle
    /\ EmotionIdle

\* analyzePythonCode(sourceText): the result, and the syntaxErrors it counted
AnalyzePythonCode ==
    /\ produced = NotComputed
    /\ produced' = [result |-> analyzePythonCode(sourceText),
                    errors |-> checkPythonSyntax(sourceText)]
    /\ UNCHANGED <<analyzerVars, sourceText, callerVars, botVars,
                   emotionVars>>

NextCall == AnalyzePythonCode

SpecCall == InitCall /\ [][NextCall]_vars

\* ------------------------------------------------------------------------
\* A caller of getAllAnalysisResults
\* ------------------------------------------------------------------------

\* getAllAnalysisResults(): returns this.analysisResults, the Map itself
GetAllAnalysisResults ==
    /\ constructed
    /\ returned' = "this.analysisResults"
    /\ event' = [kind |-> "getAll"]
    /\ lastRun' = NoRun
    /\ UNCHANGED <<constructed, activeTextEditor, currentFile,
                   analysisResults, onEmotionChange, microtasks, hostFault,
                   lastContent>>
    /\ UNCHANGED <<callVars, botVars, emotionVars>>

\* the entries of the Map the caller's reference designates
ReturnedMapping == analysisResults

\* the caller calls delete(fileName) on the Map it was given
CallerDelete ==
    /\ returned = "this.analysisResults"
    /\ \E fileName \in FileNames :
           /\ ReturnedMapping[fileName] # Undefined
           /\ analysisResults' =
                  [analysisResults EXCEPT ![fileName] = Undefined]
    /\ event' = [kind |-> "delete"]
    /\ lastRun' = NoRun
    /\ UNCHANGED <<constructed, activeTextEditor, currentFile,
                   onEmotionChange, microtasks, hostFault, lastContent>>
    /\ UNCHANGED otherVars

\* the analyzer under saves, with a caller of getAllAnalysisResults
NextCaller ==
    \/ Constructor
    \/ OnDidSaveTextDocument
    \/ AnalyzeFileResume
    \/ GetAllAnalysisResults
    \/ CallerDelete

SpecCaller == Init /\ [][NextCaller]_vars

\* ------------------------------------------------------------------------
\* BotInterface: the hydration reminder and the panel
\* ------------------------------------------------------------------------

\* the most handles setInterval gives
MaxTimers == 4
\* the most panels createWebviewPanel makes
MaxPanels == 2

\* stopWaterReminder that clears the interval but keeps the handle
stopWaterReminder_KeepsHandle(timer, scheduled) ==
    IF timer # NoTimer
    THEN [waterReminderTimer |-> timer, intervals |-> scheduled \ {timer}]
    ELSE [waterReminderTimer |-> timer, intervals |-> scheduled]

\* stopWaterReminder(): the handle and the host's intervals it leaves
stopWaterReminder(timer, scheduled) ==
    IF timer # NoTimer
    THEN [waterReminderTimer |-> NoTimer, intervals |-> scheduled \ {timer}]
    ELSE [waterReminderTimer |-> timer, intervals |-> scheduled]

InitBot ==
    /\ InitAnalyzer
    /\ activeTextEditor = Undefined
    /\ OthersIdle

\* startWaterReminder() without the stopWaterReminder call
StartWaterReminder_NoStop ==
    /\ timersStarted < MaxTimers
    /\ waterReminderTimer' = timersStarted + 1
    /\ intervals' = intervals \cup {timersStarted + 1}
    /\ timersStarted' = timersStarted + 1
    /\ botOp' = "startWaterReminder"
    /\ UNCHANGED <<panel, panels, panelsCreated>>
    /\ revealed' = FALSE
    /\ UNCHANGED <<currentEmotion, currentReason, html, variant>>
    /\ UNCHANGED <<analyzerVars, callVars, callerVars>>

\* startWaterReminder(): stop, then setInterval
StartWaterReminder ==
    /\ timersStarted < MaxTimers
    /\ LET stopped == stopWaterReminder(waterReminderTimer, intervals)
           handle == timersStarted + 1
       IN  /\ waterReminderTimer' = handle
           /\ intervals' = stopped.intervals \cup {handle}
           /\ timersStarted' = handle
    /\ botOp' = "startWaterReminder"
    /\ UNCHANGED <<panel, panels, panelsCreated>>
    /\ revealed' = FALSE
    /\ UNCHANGED <<currentEmotion, currentReason, html, variant>>
    /\ UNCHANGED <<analyzerVars, callVars, callerVars>>

\* stopWaterReminder()
StopWaterReminder ==
    /\ LET stopped == stopWaterReminder(waterReminderTimer, intervals)
       IN  /\ waterReminderTimer' = stopped.waterReminderTimer
           /\ intervals' = stopped.intervals
    /\ botOp' = "stopWaterReminder"
    /\ UNCHANGED <<timersStarted, panel, panels, panelsCreated>>
    /\ revealed' = FALSE
    /\ UNCHANGED <<currentEmotion, currentReason, html, variant>>
    /\ UNCHANGED <<analyzerVars, callVars, callerVars>>

\* an interval of the host elapses: showWaterNotification()
ShowWaterNotification ==
    /\ intervals # {}
    /\ botOp' = "showWaterNotification"
    /\ UNCHANGED <<waterReminderTimer, intervals, timersStarted, panel,
                   panels, panelsCreated>>
    /\ revealed' = FALSE
    /\ UNCHANGED <<currentEmotion, currentReason, html, variant>>
    /\ UNCHANGED <<analyzerVars, callVars, callerVars>>

\* showBot() that creates a panel whether or not one is held
ShowBot_AlwaysCreates ==
    /\ panelsCreated < MaxPanels
    /\ panel' = panelsCreated + 1
    /\ panels' = panels \cup {panelsCreated + 1}
    /\ panelsCreated' = panelsCreated + 1
    /\ botOp' = "showBot"
    /\ UNCHANGED <<waterReminderTimer, intervals, timersStarted>>
    /\ html' = [emotion |-> currentEmotion, reason |-> currentReason]
    /\ revealed' = TRUE
    /\ UNCHANGED <<currentEmotion, currentReason, variant>>
    /\ UNCHANGED <<analyzerVars, callVars, callerVars>>

\* showBot(): reveal the panel held, or create one
ShowBot ==
    /\ IF panel # NoPanel
       THEN UNCHANGED <<panel, panels, panelsCreated>>
       ELSE /\ panelsCreated < MaxPanels
            /\ panel' = panelsCreated + 1
            /\ panels' = panels \cup {panelsCreated + 1}
            /\ panelsCreated' = panelsCreated + 1
    /\ botOp' = "showBot"
    /\ UNCHANGED <<waterReminderTimer, intervals, timersStarted>>
    /\ html' = IF panel # NoPanel
               THEN html
               ELSE [emotion |-> currentEmotion, reason |-> currentReason]
    /\ revealed' = TRUE
    /\ UNCHANGED <<currentEmotion, currentReason, variant>>
    /\ UNCHANGED <<analyzerVars, callVars, callerVars>>

\* the user closes a panel: the host disposes it and fires onDidDispose
OnDidDispose ==
    /\ \E closed \in panels :
           /\ panels' = panels \ {closed}
           /\ panel' = NoPanel
    /\ botOp' = "onDidDispose"
    /\ UNCHANGED <<waterReminderTimer, intervals, timersStarted,
                   panelsCreated>>
    /\ html' = NoHtml
    /\ revealed' = FALSE
    /\ UNCHANGED <<currentEmotion, currentReason, variant>>
    /\ UNCHANGED <<analyzerVars, callVars, callerVars>>

\* dispose() that disposes the panel only
BotDispose_PanelOnly ==
    /\ IF panel # NoPanel
       THEN panels' = panels \ {panel} /\ panel' = NoPanel
       ELSE UNCHANGED <<panel, panels>>
    /\ botOp' = "dispose"
    /\ UNCHANGED <<waterReminderTimer, intervals, timersStarted,
                   panelsCreated>>
    /\ html' = IF panel # NoPanel THEN NoHtml ELSE html
    /\ revealed' = FALSE
    /\ UNCHANGED <<currentEmotion, currentReason, variant>>
    /\ UNCHANGED <<analyzerVars, callVars, callerVars>>

\* dispose(): stopWaterReminder, then panel.dispose() and its onDidDispose
BotDispose ==
    /\ LET stopped == stopWaterReminder(waterReminderTimer, intervals)
       IN  /\ waterReminderTimer' = stopped.waterReminderTimer
           /\ intervals' = stopped.intervals
    /\ IF panel # NoPanel
       THEN panels' = panels \ {panel} /\ panel' = NoPanel
       ELSE UNCHANGED <<panel, panels>>
    /\ botOp' = "dispose"
    /\ UNCHANGED <<timersStarted, panelsCreated>>
    /\ html' = IF panel # NoPanel THEN NoHtml ELSE html
    /\ revealed' = FALSE
    /\ UNCHANGED <<currentEmotion, currentReason, variant>>
    /\ UNCHANGED <<analyzerVars, callVars, callerVars>>

NextBot ==
    \/ StartWaterReminder
    \/ StopWaterReminder
    \/ ShowWaterNotification
    \/ ShowBot
    \/ OnDidDispose
    \/ BotDispose

SpecBot == InitBot /\ [][NextBot]_vars

\* ------------------------------------------------------------------------
\* BotInterface: updateEmotion in the file's two classes
\* ------------------------------------------------------------------------

\* the emotions updateEmotion is called with
Emotions == {"happy", "frustrated"}

\* the reasons it is called with: none, the empty string, and two texts
Reasons ==
    {Undefined,
     Reason("", 0, <<>>),
     Reason("Empty file - ready to start coding!", 0, <<>>),
     Reason("Found {n} syntax error(s) in {file}", 1, <<"b">>)}

\* `if (reason)`: a string that is given and not empty
Truthy(reason) == reason # Undefined /\ reason.template # ""

\* getWebviewContent(): the page made of the emotion and reason recorded
getWebviewContent(emotion, reason) == [emotion |-> emotion, reason |-> reason]

\* updateEmotion of the first class, recording only while a panel is held
updateEmotion_OnlyWithPanel(emotion, reason) ==
    LET recorded == IF Truthy(reason) THEN reason ELSE currentReason
    IN  [currentEmotion |-> IF panel # NoPanel THEN emotion
                            ELSE currentEmotion,
         currentReason  |-> IF panel # NoPanel THEN recorded
                            ELSE currentReason,
         panel          |-> panel,
         panels         |-> panels,
         panelsCreated  |-> panelsCreated,
         html           |-> IF panel # NoPanel
                            THEN getWebviewContent(emotion, recorded)
                            ELSE html,
         revealed       |-> FALSE]

\* updateEmotion(emotion, reason) of the first class: no panel is shown
updateEmotion(emotion, reason) ==
    LET recorded == IF Truthy(reason) THEN reason ELSE currentReason
    IN  [currentEmotion |-> emotion,
         currentReason  |-> recorded,
         panel          |-> panel,
         panels         |-> panels,
         panelsCreated  |-> panelsCreated,
         html           |-> IF panel # NoPanel
                            THEN getWebviewContent(emotion, recorded)
                            ELSE html,
         revealed       |-> FALSE]

\* updateEmotion(emotion, reason) of the second class: showBot() when no
\* panel is held, reveal() otherwise, then updateBotInterface()
updateEmotionAlwaysReveal(emotion, reason) ==
    LET recorded == IF Truthy(reason) THEN reason ELSE currentReason
        created == panelsCreated + 1
    IN  [currentEmotion |-> emotion,
         currentReason  |-> recorded,
         panel          |-> IF panel # NoPanel THEN panel ELSE created,
         panels         |-> IF panel # NoPanel THEN panels
                            ELSE panels \cup {created},
         panelsCreated  |-> IF panel # NoPanel THEN panelsCreated
                            ELSE created,
         html           |-> getWebviewContent(emotion, recorded),
         revealed       |-> TRUE]

\* either class, constructed
InitEmotion ==
    /\ InitAnalyzer
    /\ activeTextEditor = Undefined
    /\ CallIdle
    /\ CallerIdle
    /\ BotIdle
    /\ currentEmotion = "focused"
    /\ currentReason = ReadyToCode
    /\ html = NoHtml
    /\ revealed = FALSE
    /\ variant \in {"noFocusSteal", "alwaysReveal"}

\* a call of updateEmotion(emotion, reason) on the class that runs
UpdateEmotion ==
    /\ \E emotion \in Emotions, reason \in Reasons :
        /\ (variant = "alwaysReveal" /\ panel = NoPanel)
               => panelsCreated < MaxPanels
        /\ LET out == IF variant = "noFocusSteal"
                      THEN updateEmotion(emotion, reason)
                      ELSE updateEmotionAlwaysReveal(emotion, reason)
           IN  /\ currentEmotion' = out.currentEmotion
               /\ currentReason' = out.currentReason
               /\ panel' = out.panel
               /\ panels' = out.panels
               /\ panelsCreated' = out.panelsCreated
               /\ html' = out.html
               /\ revealed' = out.revealed
    /\ botOp' = "updateEmotion"
    /\ UNCHANGED <<waterReminderTimer, intervals, timersStarted, variant>>
    /\ UNCHANGED <<analyzerVars, callVars, callerVars>>

NextEmotion ==
    \/ UpdateEmotion
    \/ ShowBot
    \/ OnDidDispose
    \/ BotDispose

SpecEmotion == InitEmotion /\ [][NextEmotion]_vars

\* ------------------------------------------------------------------------
\* The analyzer with updateEmotion of the first class as its listener
\* ------------------------------------------------------------------------

\* the event loop resumes the analyzeFile call at the head of the queue;
\* its onEmotionChange(emotion, reason), if made, is updateEmotion
AnalyzeFileResumeWired ==
    /\ microtasks # <<>>
    /\ LET out == analyzeFileResume(Head(microtasks), FALSE)
           calls == out.run.calls
       IN  /\ currentFile' = out.currentFile
           /\ analysisResults' = out.analysisResults
           /\ hostFault' = (hostFault \/ out.escaped)
           /\ lastRun' = out.run
           /\ IF calls = <<>>
              THEN /\ UNCHANGED <<currentEmotion, currentReason, html>>
                   /\ botOp' = "none"
              ELSE LET shown == updateEmotion(calls[1].emotion,
                                              calls[1].reason)
                   IN  /\ currentEmotion' = shown.currentEmotion
                       /\ currentReason' = shown.currentReason
                       /\ html' = shown.html
                       /\ botOp' = "updateEmotion"
    /\ microtasks' = Tail(microtasks)
    /\ event' = NoEvent
    /\ revealed' = FALSE
    /\ UNCHANGED <<constructed, activeTextEditor, onEmotionChange,
                   lastContent>>
    /\ UNCHANGED <<waterReminderTimer, intervals, timersStarted, panel,
                   panels, panelsCreated, variant>>
    /\ UNCHANGED <<callVars, callerVars>>

\* the analyzer under editor switches, its listener wired to the bot
NextWired ==
    \/ Constructor
    \/ SetEmotionCallback
    \/ OnDidChangeActiveTextEditor
    \/ AnalyzeFileResumeWired

SpecWired == Init /\ [][NextWired]_vars

\* ------------------------------------------------------------------------
\* Properties
\* ------------------------------------------------------------------------

\* analyzePythonCode has returned
Produced == produced # NotComputed

\* the last step resumed an analysis that was not rejected
Analysed == lastRun # NoRun /\ lastRun.result # Rejected

\* hasErrors, errorCount or lineCount differs between two results
Differs(old, new) ==
    \/ old.hasErrors # new.hasErrors
    \/ old.errorCount # new.errorCount
    \/ old.lineCount # new.lineCount

\* C1: with a listener registered, the first successful analysis of a
\* document (no prior cache entry) invokes the listener exactly once, with
\* the emotion and reason selected for the new result.
C1_FirstAnalysisNotifies ==
    (Analysed /\ lastRun.previous = Undefined /\ onEmotionChange = "listener")
        => lastRun.calls = <<SelectEmotion(lastRun.result, lastRun.fileName)>>

\* C2: with a prior cache entry and a listener registered, an analysis invokes
\* the listener if and only if hasErrors, errorCount or lineCount differs from
\* the prior result; a change confined to the warning fields, complexity or
\* quality invokes nothing, and a change of lineCount alone does invoke it.
C2_SuppressionRule ==
    (Analysed /\ lastRun.previous # Undefined /\ onEmotionChange = "listener")
        => /\ lastRun.calls # <<>> <=> Differs(lastRun.previous, lastRun.result)
           /\ (/\ lastRun.previous # lastRun.result
               /\ ~Differs(lastRun.previous, lastRun.result))
                  => lastRun.calls = <<>>
           /\ lastRun.previous.lineCount # lastRun.result.lineCount
                  => lastRun.calls # <<>>

\* a lineCount-only change of a cached document reached the listener
C2_Witness ==
    /\ Analysed
    /\ lastRun.previous # Undefined
    /\ lastRun.previous.lineCount # lastRun.result.lineCount
    /\ lastRun.previous.hasErrors = lastRun.result.hasErrors
    /\ lastRun.previous.errorCount = lastRun.result.errorCount
    /\ lastRun.calls # <<>>

\* C3: within one analysis the previous entry is read first, then the new
\* result is written, then the selector and listener run: the baseline of the
\* comparison is the entry as it stood before the write, and a listener that
\* reads the cache during its invocation sees the new result.
C3_ReadWriteNotifyOrder ==
    [][(lastRun' # NoRun /\ lastRun'.result # Rejected)
          => /\ lastRun'.previous = analysisResults[lastRun'.fileName]
             /\ analysisResults'[lastRun'.fileName] = lastRun'.result
             /\ lastRun'.baseline # NotComputed
                    => lastRun'.baseline = analysisResults[lastRun'.fileName]
             /\ lastRun'.calls # <<>>
                    => lastRun'.observed = lastRun'.result]_vars

\* C4: analysis runs to completion per event: once an event (the constructor's
\* initial analysis included) has started an analysis, nothing else starts
\* until that analysis has written the cache and finished its listener call.
C4_RunToCompletion ==
    [][microtasks # <<>>
          => microtasks' = Tail(microtasks) /\ lastRun' # NoRun]_vars

\* C5: a fault thrown while an analysis event is handled leaves the cache
\* entry of the document as it was, propagates no emotion for that event and
\* does not escape to the host.
C5_FaultLeavesNoTrace ==
    [][(lastRun' # NoRun /\ (lastRun'.result = Rejected \/ lastRun'.threw))
          => /\ analysisResults'[lastRun'.fileName]
                    = analysisResults[lastRun'.fileName]
             /\ lastRun'.calls = <<>>
             /\ ~hostFault']_vars

\* C5 as amended: a fault thrown before the cache write (the analysis is
\* rejected) leaves the whole cache as it was and invokes no listener; a fault
\* thrown by the listener comes after the write, so the entry holds the new
\* result; neither fault escapes to the host.
C5_FaultContained ==
    [][lastRun' # NoRun
          => /\ lastRun'.result = Rejected
                    => analysisResults' = analysisResults
                           /\ lastRun'.calls = <<>>
             /\ lastRun'.threw
                    => analysisResults'[lastRun'.fileName] = lastRun'.result
             /\ ~hostFault']_vars

\* a rejected analysis of a document that has a cache entry, listener set
C5_Witness ==
    /\ lastRun # NoRun
    /\ lastRun.result = Rejected
    /\ analysisResults[lastRun.fileName] # Undefined
    /\ onEmotionChange = "listener"

\* C6: the cache is last-write-wins per identity: with no analysis pending,
\* each entry is the analysis of the content of the most recent analysed
\* event of its document (absent if there was none), and an analysis of one
\* document changes no other entry.
C6_LastWriteWins ==
    /\ [](microtasks = <<>>
             => \A f \in FileNames :
                    analysisResults[f] =
                        IF lastContent[f] = <<>> THEN Undefined
                        ELSE AnalysisOf[lastContent[f][1]])
    /\ [][\A f \in FileNames :
              analysisResults'[f] # analysisResults[f]
                  => lastRun' # NoRun /\ lastRun'.fileName = f]_vars

\* an entry was overwritten while another document's entry was present
C6_Witness ==
    /\ microtasks = <<>>
    /\ Analysed
    /\ lastRun.previous # Undefined
    /\ lastRun.previous # lastRun.result
    /\ \E f \in FileNames :
           f # lastRun.fileName /\ analysisResults[f] # Undefined

\* C7: a triggering event causes at most one listener invocation: an event
\* queues at most one analysis and calls no listener itself, and an analysis
\* calls the listener at most once.
C7_AtMostOneCall ==
    /\ [](lastRun # NoRun => Len(lastRun.calls) <= 1)
    /\ [][event' # NoEvent
              => /\ Len(microtasks') <= Len(microtasks) + 1
                 /\ lastRun' = NoRun]_vars

\* an analysis that invoked the listener
C7_Witness == Analysed /\ Len(lastRun.calls) = 1

\* C8: an activate, edit or save event of a buffer that is not Python leaves
\* the cache, the tracked current identity and the listener untouched, and
\* starts no analysis.
C8_NonPythonIgnored ==
    [][(/\ event' # NoEvent
        /\ event'.kind \in {"activate", "edit", "save"}
        /\ event'.document # Undefined
        /\ event'.document.languageId # "python"
        /\ ~EndsWith(event'.document.fileName, DOT_PY))
          => /\ UNCHANGED <<analysisResults, currentFile, onEmotionChange,
                            microtasks>>
             /\ lastRun' = NoRun]_vars

\* a non-Python buffer was saved while the analyzer held state
C8_Witness ==
    /\ event # NoEvent
    /\ event.kind = "save"
    /\ event.document = DocN
    /\ currentFile # NoFile
    /\ onEmotionChange = "listener"
    /\ \E f \in FileNames : analysisResults[f] # Undefined

\* C9: the emotion delivered follows the priority errors, then warnings, then
\* happy, with the empty-file reason exactly when lineCount = 0; a result
\* with errors and warnings gives frustrated, and happy is delivered only for
\* a result with neither.
C9_EmotionPriority ==
    Analysed =>
        \A i \in 1..Len(lastRun.calls) :
            LET call == lastRun.calls[i]
                r == lastRun.result
            IN  /\ r.hasErrors => call.emotion = "frustrated"
                /\ (~r.hasErrors /\ r.hasWarnings)
                       => call.emotion = "concerned"
                /\ (~r.hasErrors /\ ~r.hasWarnings)
                       => /\ call.emotion = "happy"
                          /\ (call.reason.template
                                  = "Empty file - ready to start coding!")
                                 <=> r.lineCount = 0
                /\ call.emotion = "happy"
                       => ~r.hasErrors /\ ~r.hasWarnings

\* a result with errors and warnings was delivered as frustrated
C9_Witness ==
    /\ Analysed
    /\ lastRun.result.hasErrors
    /\ lastRun.result.hasWarnings
    /\ Len(lastRun.calls) = 1
    /\ lastRun.calls[1].emotion = "frustrated"

\* the flag and optional-message invariants of one result
ResultConsistent(r) ==
    /\ r.hasErrors = (r.errorCount > 0)
    /\ r.hasWarnings = (r.warningCount > 0)
    /\ (r.lastError # Undefined) = r.hasErrors
    /\ (r.lastWarning # Undefined) = r.hasWarnings

\* the error and warning sequences of every content, computed once
MessagesOf ==
    [content \in UNION {BuffersOf(d) : d \in Documents} |->
        [errors   |-> checkPythonSyntax(content),
         warnings |-> checkPythonWarnings(content)]]

\* C10: every result produced and every cache entry has
\* hasErrors = (errorCount > 0), hasWarnings = (warningCount > 0), lastError
\* defined iff hasErrors, lastWarning defined iff hasWarnings, and its counts
\* equal to the lengths of the error and warning sequences of its content.
C10_ResultInvariants ==
    /\ \A i \in 1..Len(microtasks) :
           microtasks[i].result # Rejected
               => ResultConsistent(microtasks[i].result)
    /\ \A f \in FileNames :
           analysisResults[f] # Undefined
               => /\ ResultConsistent(analysisResults[f])
                  /\ microtasks = <<>>
                         => /\ analysisResults[f].errorCount
                                = Len(MessagesOf[lastContent[f][1]].errors)
                            /\ analysisResults[f].warningCount
                                = Len(MessagesOf[lastContent[f][1]].warnings)

\* a cache entry with an error and a warning, and one with neither
C10_Witness ==
    /\ microtasks = <<>>
    /\ \E f \in FileNames :
           /\ analysisResults[f] # Undefined
           /\ analysisResults[f].errorCount = 1
           /\ analysisResults[f].lastError # Undefined
           /\ analysisResults[f].lastWarning # Undefined
    /\ \E f \in FileNames :
           /\ analysisResults[f] # Undefined
           /\ ~analysisResults[f].hasErrors
           /\ analysisResults[f].lastError = Undefined

\* C11: quality is decided by errorCount, complexity and lineCount alone:
\* "good" iff no error, complexity below 10 and some non-blank line;
\* "improving" iff no error, some non-blank line and complexity at least 10;
\* "needs_work" iff there is an error or no non-blank line, so the empty
\* buffer is "needs_work"
C11_QualityPrecedence ==
    Produced =>
        LET r == produced.result
        IN  /\ r.quality = "good" <=>
                   r.errorCount = 0 /\ r.complexity < 10 /\ r.lineCount > 0
            /\ r.quality = "improving" <=>
                   r.errorCount = 0 /\ r.lineCount > 0 /\ r.complexity >= 10
            /\ r.quality = "needs_work" <=>
                   r.errorCount > 0 \/ r.lineCount = 0
            /\ sourceText = <<>> => r.quality = "needs_work"

\* a buffer without errors whose complexity reaches 10 has been analysed
C11_Witness ==
    /\ Produced
    /\ produced.result.quality = "improving"
    /\ produced.result.complexity >= 10


\* C19: lastSuccess is present iff hasErrors is false and lineCount > 0; it
\* is absent from every result with an error and from every buffer without
\* a non-blank line; the empty string gives lineCount 0, errorCount 0,
\* warningCount 0 and complexity 0
C19_LastSuccessPresence ==
    Produced =>
        LET r == produced.result
        IN  /\ r.lastSuccess # Undefined <=> ~r.hasErrors /\ r.lineCount > 0
            /\ r.hasErrors => r.lastSuccess = Undefined
            /\ FilterNonBlank(Split(sourceText)) = <<>> =>
                   r.lastSuccess = Undefined
            /\ sourceText = <<>> =>
                   /\ r.lineCount = 0
                   /\ r.errorCount = 0
                   /\ r.warningCount = 0
                   /\ r.complexity = 0

\* a buffer of blank lines only, not the empty string, has been analysed
C19_Witness ==
    /\ Produced
    /\ sourceText # <<>>
    /\ produced.result.lineCount = 0
    /\ ~produced.result.hasErrors
    /\ produced.result.lastSuccess = Undefined

\* line j of ls, trimmed, starts with "def " or "class "
ScanBoundary(ls, j) ==
    StartsWith(Trim(ls[j]), DEF_) \/ StartsWith(Trim(ls[j]), CLASS_)

\* an "except" line follows line i of ls with no def or class line between
ExceptReachable(ls, i) ==
    \E j \in (i + 1)..Len(ls) :
        /\ StartsWith(Trim(ls[j]), EXCEPT_WORD)
        /\ \A k \in (i + 1)..(j - 1) : ~ScanBoundary(ls, k)

\* the error "try block without matching except" was raised for line i
TryErrorAt(i) ==
    \E k \in 1..Len(produced.errors) :
        produced.errors[k] = Message(i, "try block without matching except")

\* C20 as stated: the "try block without matching except" error is raised
\* for line i exactly when the trimmed line starts with "try:" and no
\* "except" line is found before the next "def " or "class " line; a line
\* that only contains "try:" elsewhere raises no such error
C20_TryAtTrimmedStart ==
    Produced =>
        LET ls == Split(sourceText)
        IN  \A i \in 1..Len(ls) :
                TryErrorAt(i) <=>
                    /\ StartsWith(Trim(ls[i]), TRY_COLON)
                    /\ ~ExceptReachable(ls, i)

\* C20 amended: the error is raised for line i exactly when the line
\* contains "try:" anywhere and no "except" line is found before the next
\* "def " or "class " line
C20_TryAnywhere ==
    Produced =>
        LET ls == Split(sourceText)
        IN  \A i \in 1..Len(ls) :
                TryErrorAt(i) <=>
                    /\ Includes(ls[i], TRY_COLON)
                    /\ ~ExceptReachable(ls, i)

\* a "try:" line whose only "except" lies beyond a "def " line, and a line
\* with "try:" away from its start, have each raised the error
C20_Witness ==
    /\ Produced
    /\ LET ls == Split(sourceText)
       IN  /\ Len(ls) = 3
           /\ ls[1] = LineTry /\ ls[2] = LineDef /\ ls[3] = LineNote
           /\ TryErrorAt(1)
           /\ TryErrorAt(3)


\* C12: once every analysis under way has finished, getCurrentAnalysis
\* returns the cache entry of the active editor's Python document, whatever
\* was saved in other Python documents meanwhile
C12_CurrentIsActive ==
    /\ constructed
    /\ microtasks = <<>>
    /\ activeTextEditor # Undefined
    /\ isPythonFile(activeTextEditor)
    => getCurrentAnalysis = analysisResults[activeTextEditor.fileName]


\* C14: no step of the analyzer, dispose included, removes a cache entry:
\* an identity present in the cache before a step is present after it
C14_EntriesOnlyGrow ==
    [][\A f \in FileNames :
           analysisResults[f] # Undefined => analysisResults'[f] # Undefined]_vars

\* dispose() ran while the cache held entries for two identities
C14_Witness ==
    /\ event = [kind |-> "dispose"]
    /\ Cardinality({f \in FileNames : analysisResults[f] # Undefined}) >= 2


\* C15: with no listener registered an analysis still completes without a
\* fault reaching the host and still stores its result in the cache and as
\* the current identity; nothing is called
C15_NoListenerStillCaches ==
    (Analysed /\ onEmotionChange = "undefined") =>
        /\ analysisResults[lastRun.fileName] = lastRun.result
        /\ currentFile = lastRun.fileName
        /\ lastRun.calls = <<>>
        /\ ~lastRun.threw
        /\ ~hostFault

\* with no listener registered, an analysis replaced an entry by a result
\* that differs in a compared field
C15_Witness ==
    /\ Analysed
    /\ onEmotionChange = "undefined"
    /\ lastRun.previous # Undefined
    /\ Differs(lastRun.previous, lastRun.result)
    /\ analysisResults[lastRun.fileName] = lastRun.result


\* the last step queued an analysis of the content its document was last
\* analysed with, after that earlier analysis had finished
RepeatedContent ==
    /\ Len(microtasks') = Len(microtasks) + 1
    /\ LET task == microtasks'[Len(microtasks')]
           fileName == task.document.fileName
       IN  /\ task.result # Rejected
           /\ lastContent[fileName] # <<>>
           /\ lastContent'[fileName] = lastContent[fileName]
           /\ \A k \in 1..Len(microtasks) :
                  microtasks[k].document.fileName # fileName

\* C18: analysing the same content twice in a row for one identity gives
\* the same result both times: the second result equals the cache entry the
\* first one left, and an analysis whose result equals the entry leaves the
\* whole cache unchanged and does not call the listener
C18_RepeatIsSilent ==
    /\ [][RepeatedContent =>
              microtasks'[Len(microtasks')].result =
                  analysisResults[
                      microtasks'[Len(microtasks')].document.fileName]]_vars
    /\ [][(/\ microtasks # <<>>
           /\ microtasks' = Tail(microtasks)
           /\ Head(microtasks).result =
                  analysisResults[Head(microtasks).document.fileName])
              => /\ analysisResults' = analysisResults
                 /\ lastRun'.previous = lastRun'.result
                 /\ lastRun'.calls = <<>>]_vars

\* with a listener registered, a buffer with an error was analysed again
\* unchanged: the run found its own result in the cache
C18_Witness ==
    /\ Analysed
    /\ onEmotionChange = "listener"
    /\ lastRun.result.hasErrors
    /\ lastRun.previous = lastRun.result
    /\ lastContent[lastRun.fileName] # <<>>
    /\ AnalysisOf[lastContent[lastRun.fileName][1]] = lastRun.result
    /\ microtasks = <<>>


\* C13: what getAllAnalysisResults returned is a snapshot: the mapping a
\* caller holds keeps its entries whatever is analysed later, and what the
\* caller does to it leaves the analyzer's cache as it was
C13_SnapshotIsolated ==
    /\ [][(returned = "this.analysisResults" /\ returned' = returned
              /\ lastRun' # NoRun)
             => ReturnedMapping' = ReturnedMapping]_vars
    /\ [][event' = [kind |-> "delete"]
             => analysisResults' = analysisResults]_vars


\* C16: stopWaterReminder is idempotent: applied to a reminder that is
\* stopped or was never started it changes nothing, applied twice it leaves
\* what one application leaves, and after it no timer is active
C16_StopIdempotent ==
    LET once == stopWaterReminder(waterReminderTimer, intervals)
        twice == stopWaterReminder(once.waterReminderTimer, once.intervals)
    IN  /\ twice = once
        /\ once.waterReminderTimer = NoTimer
        /\ once.intervals = {}
        /\ waterReminderTimer = NoTimer =>
               /\ once.waterReminderTimer = waterReminderTimer
               /\ once.intervals = intervals
        /\ botOp = "stopWaterReminder" =>
               waterReminderTimer = NoTimer /\ intervals = {}

\* stopWaterReminder has just stopped a reminder that had been restarted
C16_Witness ==
    /\ botOp = "stopWaterReminder"
    /\ timersStarted >= 2
    /\ waterReminderTimer = NoTimer
    /\ intervals = {}

\* C17: dispose() leaves no reminder interval scheduled, whatever starts
\* and stops came before, and while none is scheduled no water notification
\* fires and none gets scheduled unless startWaterReminder is called again
C17_DisposeStopsReminder ==
    /\ [](botOp = "dispose" =>
              waterReminderTimer = NoTimer /\ intervals = {})
    /\ [][(intervals = {} /\ botOp' # "startWaterReminder")
             => /\ intervals' = {}
                /\ botOp' # "showWaterNotification"]_vars

\* dispose() ran after the reminder had been started twice, with a panel
\* that dispose() closed
C17_Witness ==
    /\ botOp = "dispose"
    /\ timersStarted >= 2
    /\ panelsCreated >= 1
    /\ panel = NoPanel
    /\ panels = {}


\* C22: whatever startWaterReminder and stopWaterReminder calls were made,
\* at most one reminder interval is scheduled, and it is the one whose
\* handle is held: a start cancels the interval of the start before it
C22_AtMostOneInterval ==
    /\ Cardinality(intervals) <= 1
    /\ intervals = IF waterReminderTimer = NoTimer
                   THEN {}
                   ELSE {waterReminderTimer}
    /\ botOp = "startWaterReminder" => intervals = {timersStarted}

\* startWaterReminder has run for the third time: one interval is left
C22_Witness ==
    /\ botOp = "startWaterReminder"
    /\ timersStarted >= 3
    /\ intervals = {timersStarted}


\* C24: at most one panel exists at any time and it is the one held; the
\* reference is cleared when the panel is disposed, by the user or by
\* dispose(); showBot leaves a held panel as it is and creates a fresh one
\* only when none is held
C24_AtMostOnePanel ==
    /\ [](/\ Cardinality(panels) <= 1
          /\ panels = IF panel = NoPanel THEN {} ELSE {panel}
          /\ botOp \in {"onDidDispose", "dispose"} => panel = NoPanel)
    /\ [][botOp' = "showBot" =>
              IF panel # NoPanel
              THEN UNCHANGED <<panel, panels, panelsCreated>>
              ELSE /\ panel' # NoPanel
                   /\ panel' \notin 1..panelsCreated
                   /\ panels' = {panel'}]_vars

\* showBot created a second panel after the first had been disposed
C24_Witness ==
    /\ botOp = "showBot"
    /\ panelsCreated = 2
    /\ panel = 2
    /\ panels = {2}


\* C21: in both classes updateEmotion records the emotion it is given, and
\* the reason when one is given; the first class creates and reveals no
\* panel and renders only into a panel already held; the second class
\* leaves a panel held, created if there was none, revealed and rendered;
\* the two record the same emotion and reason
C21_UpdateEmotionVariants ==
    /\ \A emotion \in Emotions, reason \in Reasons :
        LET quiet == updateEmotion(emotion, reason)
            loud == updateEmotionAlwaysReveal(emotion, reason)
            recorded == IF reason # Undefined /\ reason.template # ""
                        THEN reason ELSE currentReason
            page == [emotion |-> emotion, reason |-> recorded]
        IN  /\ quiet.currentEmotion = emotion
            /\ loud.currentEmotion = emotion
            /\ quiet.currentReason = recorded
            /\ loud.currentReason = recorded
            /\ quiet.panel = panel
            /\ quiet.panels = panels
            /\ quiet.panelsCreated = panelsCreated
            /\ ~quiet.revealed
            /\ quiet.html = IF panel = NoPanel THEN NoHtml ELSE page
            /\ loud.panel # NoPanel
            /\ loud.panels = {loud.panel}
            /\ loud.revealed
            /\ loud.html = page
            /\ IF panel # NoPanel
               THEN loud.panel = panel /\ loud.panelsCreated = panelsCreated
               ELSE /\ loud.panel \notin 1..panelsCreated
                    /\ loud.panelsCreated = panelsCreated + 1
    /\ (botOp = "updateEmotion" /\ variant = "noFocusSteal") =>
           /\ ~revealed
           /\ html = IF panel = NoPanel THEN NoHtml
                      ELSE [emotion |-> currentEmotion,
                            reason  |-> currentReason]
    /\ (botOp = "updateEmotion" /\ variant = "alwaysReveal") =>
           /\ revealed
           /\ panel # NoPanel
           /\ panels = {panel}
           /\ html = [emotion |-> currentEmotion, reason |-> currentReason]

\* the second class was told an emotion without a reason while no panel was
\* held, after an earlier panel had been closed: it made a second panel
C21_Witness ==
    /\ variant = "alwaysReveal"
    /\ botOp = "updateEmotion"
    /\ currentEmotion = "frustrated"
    /\ currentReason = ReadyToCode
    /\ panelsCreated = 2
    /\ panel = 2
    /\ revealed


\* C23: whether an analysis of document d calls the listener is decided by
\* d's own entry before the analysis and d's new result alone: with a
\* listener registered it is called, with the emotion selected for the new
\* result, exactly when d had an entry that differs in hasErrors,
\* errorCount or lineCount; otherwise the emotion and reason delivered last
\* stay, whichever document they came from
C23_DecisionIsPerDocument ==
    [][(/\ microtasks # <<>>
        /\ microtasks' = Tail(microtasks)
        /\ Head(microtasks).result # Rejected
        /\ onEmotionChange = "listener")
          => LET d == Head(microtasks).document.fileName
                 old == analysisResults[d]
                 new == Head(microtasks).result
             IN  IF old # Undefined /\ Differs(old, new)
                 THEN /\ Len(lastRun'.calls) = 1
                      /\ currentEmotion' = SelectEmotion(new, d).emotion
                      /\ currentReason' = SelectEmotion(new, d).reason
                 ELSE /\ lastRun'.calls = <<>>
                      /\ UNCHANGED <<currentEmotion, currentReason>>]_vars

\* an unchanged document without errors was analysed again after a switch
\* from another document whose errors were delivered last: no call was made
\* and the bot still shows the other document's emotion
C23_Witness ==
    /\ Analysed
    /\ onEmotionChange = "listener"
    /\ lastRun.calls = <<>>
    /\ lastRun.previous = lastRun.result
    /\ ~lastRun.result.hasErrors
    /\ currentFile = lastRun.fileName
    /\ currentEmotion = "frustrated"
    /\ currentReason.file # <<>>
    /\ currentReason.file # Basename(lastRun.fileName)

=============================================================================
